---- MODULE Spec2Model ----
(***************************************************************************)
(* A model of the CHILDES age-prediction feature-impact harness:           *)
(*   evaluate_feature_impacts.py  taxonomy, schema guard, filter, driver   *)
(*   extract_features.py          feature extractor and age bucketing      *)
(*   score.py                     scorer                                   *)
(*                                                                         *)
(* Text is modelled as a sequence of atoms.  An atom is a maximal run of   *)
(* characters holding none of the delimiters the code tests for; the       *)
(* delimiters "_", "=", ",", " " and the line terminator "\n" are atoms of *)
(* their own.  So "word_count=3" is <<"word","_","count","=","3">>, and    *)
(* startswith, split and strip are computed on these sequences.            *)
(***************************************************************************)
EXTENDS Integers, Sequences, FiniteSets, TLC

VARIABLES
    feat, coarse, fine,         \* group_for_feature: argument, coarse and detailed result
    recs, src, allowed,         \* filter_features: the records written to full_path, the file, the groups
    dst, dst2, fpc,             \* filter_features: dest_path after one pass, after a second, position
    gold_file, prediction_file, \* score.py: the file given with -g, the lines on stdin
    score_res, parsed,          \* the scorer's finished process, what score_model makes of it
    rows, extended, events,     \* extract_features.py: the input table, the -e flag, the output file
    guard, epc,                 \* what assert_no_unknown_features did on that file, position
    extractor_out, clf,         \* main: what the extractor writes per split, how bin/classify behaves
    mpc, split_i, exp_i, run_i, \* main: position, index into SPLITS, into experiments, run_idx
    full_paths, filtered, models,  \* main: the files under full/, under filtered/, under models/
    apply_out,                  \* main: the output of the last model application
    dev_metrics_list, results,  \* main: train_and_eval's list, main's list of rows
    table, err,                 \* main: the results file, the exception that ended the run
    guard_res,                  \* main: the outcome of the schema guard and the files it was given
    guard_runs, exp_steps, writes  \* main: how often the guard, an experiment step, write_results ran

taxVars    == <<feat, coarse, fine>>
filterVars == <<recs, src, allowed, dst, dst2, fpc>>
scoreVars  == <<gold_file, prediction_file, score_res, parsed>>
extractVars == <<rows, extended, events, guard, epc>>
mainVars   == <<extractor_out, clf, mpc, split_i, exp_i, run_i, full_paths, filtered, models,
                apply_out, dev_metrics_list, results, table, err, guard_res,
                guard_runs, exp_steps, writes>>
vars       == <<taxVars, filterVars, scoreVars, extractVars, mainVars>>

----------------------------------------------------------------------------
(* Text helpers *)

\* The value None of Python, and a marker for "not computed yet".
None  == <<"None">>
Unset == <<"unset">>

\* The same marker for a variable that holds a record once it is set.
NotRun == [unset |-> TRUE]

COMMA == ","
EQ    == "="
US    == "_"
SP    == " "
NL    == "\n"

\* str.startswith(prefix)
StartsWith(s, prefix) ==
    /\ Len(s) >= Len(prefix)
    /\ SubSeq(s, 1, Len(prefix)) = prefix

\* str.startswith(tuple of prefixes)
StartsWithAny(s, prefixes) == \E p \in prefixes : StartsWith(s, p)

\* name + "="
N1(a)          == <<a, EQ>>
N2(a, b)       == <<a, US, b, EQ>>
N3(a, b, c)    == <<a, US, b, US, c, EQ>>
N4(a, b, c, d) == <<a, US, b, US, c, US, d, EQ>>

----------------------------------------------------------------------------
(* Numbers and sequences *)

SeqsUpTo(S, n) == UNION { [1..k -> S] : k \in 0..n }

Range(f) == { f[i] : i \in DOMAIN f }

Abs(x)    == IF x < 0 THEN -x ELSE x
Min(a, b) == IF a <= b THEN a ELSE b

\* sum(f[1..k])
RECURSIVE SumTo(_, _)
SumTo(f, k) == IF k = 0 THEN 0 ELSE f[k] + SumTo(f, k - 1)

\* A number of the script is kept as the exact fraction <<numerator, denominator>>.
RatEq(a, b)  == a[1] * b[2] = b[1] * a[2]
RatGeq(a, b) == a[1] * b[2] >= b[1] * a[2]

RECURSIVE Pow10(_)
Pow10(k) == IF k = 0 THEN 1 ELSE 10 * Pow10(k - 1)

\* f"{x:.<places>f}": x rounded to that many decimals (ties to even), as the
\* integer count of its last decimal place, so 33.33 is 3333 at two places
Fmt(x, places) ==
    LET a == x[1] * Pow10(places)
        b == x[2]
        q == a \div b
        r == a % b
    IN  IF 2 * r < b THEN q
        ELSE IF 2 * r > b THEN q + 1
        ELSE IF q % 2 = 0 THEN q ELSE q + 1

----------------------------------------------------------------------------
(* Feature groups, evaluate_feature_impacts.py *)

GROUP_LEXICAL    == <<"lexical", US, "length">>
GROUP_FUNCTION   == <<"function", US, "words">>
GROUP_MORPH      == <<"morphology", US, "inflection">>
GROUP_INTEL      == <<"intelligibility">>
GROUP_CLASS_PROP == <<"word", US, "class", US, "props">>
GROUP_EXTENDED   == <<"extended", US, "syntax">>

GROUP_EXT_BIGRAMS      == <<"ext", US, "bigrams">>
GROUP_EXT_TRIGRAMS     == <<"ext", US, "trigrams">>
GROUP_EXT_POS          == <<"ext", US, "pos">>
GROUP_EXT_POS_BIGRAMS  == <<"ext", US, "pos", US, "bigrams">>
GROUP_EXT_POS_TRIGRAMS == <<"ext", US, "pos", US, "trigrams">>
GROUP_EXT_MARKERS      == <<"ext", US, "markers">>

EXTENDED_SUBGROUPS ==
    { GROUP_EXT_BIGRAMS, GROUP_EXT_TRIGRAMS, GROUP_EXT_POS,
      GROUP_EXT_POS_BIGRAMS, GROUP_EXT_POS_TRIGRAMS, GROUP_EXT_MARKERS }

ALL_GROUPS ==
    { GROUP_LEXICAL, GROUP_FUNCTION, GROUP_MORPH, GROUP_INTEL,
      GROUP_CLASS_PROP, GROUP_EXTENDED }

\* A plausible slip: a sub-group left out of the detailed superset.
ALL_GROUPS_DETAILED_no_markers ==
    { GROUP_LEXICAL, GROUP_FUNCTION, GROUP_MORPH, GROUP_INTEL, GROUP_CLASS_PROP }
        \cup (EXTENDED_SUBGROUPS \ {GROUP_EXT_MARKERS})

ALL_GROUPS_DETAILED ==
    { GROUP_LEXICAL, GROUP_FUNCTION, GROUP_MORPH, GROUP_INTEL,
      GROUP_CLASS_PROP } \cup EXTENDED_SUBGROUPS

BASELINE_GROUPS ==
    { GROUP_LEXICAL, GROUP_FUNCTION, GROUP_MORPH, GROUP_INTEL, GROUP_CLASS_PROP }

----------------------------------------------------------------------------
(* group_for_feature *)

LexicalPrefixes ==
    { N2("word", "count"), N2("unique", "words"), N1("ttr"),
      N2("first", "word"), N2("last", "word"), N2("char", "len") }

FunctionPrefixes ==
    { N3("function", "word", "count"), N3("function", "word", "prop"),
      N3("function", "word", "types"), N4("content", "to", "function", "ratio") }

MorphPrefixes ==
    { N2("mlu", "words"), N2("morpheme", "count"), N2("mlu", "morphemes") }

MorphFlags ==
    { <<"has", US, "ing">>, <<"has", US, "ed">>,
      <<"has", US, "3sg", US, "or", US, "plural">>, <<"has", US, "possessive">> }

IntelPrefixes ==
    { N2("unintelligible", "count"), N2("unintelligible", "prop"),
      N2("unintelligible", "bin") }

HasUnintelligible == <<"has", US, "unintelligible">>

ClassPropPrefixes ==
    { N2("prop", "nouns"), N2("prop", "verbs"), N3("prop", "function", "words") }

MarkerPrefix == <<"has", US, "marker", US>>

MarkerFlags == { <<"has", US, "plural">>, <<"has", US, "negation">> }

\* A plausible slip: the discourse-marker line loses its detailed branch.
group_for_feature_markers_coarse(f, detailed) ==
    IF StartsWithAny(f, LexicalPrefixes) THEN GROUP_LEXICAL
    ELSE IF StartsWithAny(f, FunctionPrefixes) THEN GROUP_FUNCTION
    ELSE IF StartsWithAny(f, MorphPrefixes) \/ f \in MorphFlags THEN GROUP_MORPH
    ELSE IF StartsWithAny(f, IntelPrefixes) \/ f = HasUnintelligible THEN GROUP_INTEL
    ELSE IF StartsWithAny(f, ClassPropPrefixes) THEN GROUP_CLASS_PROP
    ELSE IF StartsWith(f, N1("bigram"))
        THEN (IF detailed THEN GROUP_EXT_BIGRAMS ELSE GROUP_EXTENDED)
    ELSE IF StartsWith(f, N1("trigram"))
        THEN (IF detailed THEN GROUP_EXT_TRIGRAMS ELSE GROUP_EXTENDED)
    ELSE IF StartsWith(f, N1("pos"))
        THEN (IF detailed THEN GROUP_EXT_POS ELSE GROUP_EXTENDED)
    ELSE IF StartsWith(f, N2("pos", "bigram"))
        THEN (IF detailed THEN GROUP_EXT_POS_BIGRAMS ELSE GROUP_EXTENDED)
    ELSE IF StartsWith(f, N2("pos", "trigram"))
        THEN (IF detailed THEN GROUP_EXT_POS_TRIGRAMS ELSE GROUP_EXTENDED)
    ELSE IF StartsWith(f, MarkerPrefix) \/ f \in MarkerFlags
        THEN GROUP_EXTENDED
    ELSE None

group_for_feature(f, detailed) ==
    IF StartsWithAny(f, LexicalPrefixes) THEN GROUP_LEXICAL
    ELSE IF StartsWithAny(f, FunctionPrefixes) THEN GROUP_FUNCTION
    ELSE IF StartsWithAny(f, MorphPrefixes) \/ f \in MorphFlags THEN GROUP_MORPH
    ELSE IF StartsWithAny(f, IntelPrefixes) \/ f = HasUnintelligible THEN GROUP_INTEL
    ELSE IF StartsWithAny(f, ClassPropPrefixes) THEN GROUP_CLASS_PROP
    ELSE IF StartsWith(f, N1("bigram"))
        THEN (IF detailed THEN GROUP_EXT_BIGRAMS ELSE GROUP_EXTENDED)
    ELSE IF StartsWith(f, N1("trigram"))
        THEN (IF detailed THEN GROUP_EXT_TRIGRAMS ELSE GROUP_EXTENDED)
    ELSE IF StartsWith(f, N1("pos"))
        THEN (IF detailed THEN GROUP_EXT_POS ELSE GROUP_EXTENDED)
    ELSE IF StartsWith(f, N2("pos", "bigram"))
        THEN (IF detailed THEN GROUP_EXT_POS_BIGRAMS ELSE GROUP_EXTENDED)
    ELSE IF StartsWith(f, N2("pos", "trigram"))
        THEN (IF detailed THEN GROUP_EXT_POS_TRIGRAMS ELSE GROUP_EXTENDED)
    ELSE IF StartsWith(f, MarkerPrefix) \/ f \in MarkerFlags
        THEN (IF detailed THEN GROUP_EXT_MARKERS ELSE GROUP_EXTENDED)
    ELSE None

----------------------------------------------------------------------------
(* Reading and writing feature files *)

Whitespace == { SP, NL }

RECURSIVE LStrip(_)
LStrip(s) ==
    IF s # <<>> /\ Head(s) \in Whitespace THEN LStrip(Tail(s)) ELSE s

RECURSIVE RStrip(_)
RStrip(s) ==
    IF s # <<>> /\ s[Len(s)] \in Whitespace THEN RStrip(SubSeq(s, 1, Len(s) - 1)) ELSE s

\* str.strip()
Strip(s) == RStrip(LStrip(s))

\* str.split(sep): the fields between the separators; "" splits into [""]
RECURSIVE Split(_, _)
Split(s, sep) ==
    IF \A i \in 1..Len(s) : s[i] # sep
        THEN <<s>>
        ELSE LET i == CHOOSE k \in 1..Len(s) :
                          s[k] = sep /\ \A j \in 1..(k - 1) : s[j] # sep
             IN  <<SubSeq(s, 1, i - 1)>> \o Split(SubSeq(s, i + 1, Len(s)), sep)

\* sep.join(fields)
RECURSIVE Join(_, _)
Join(fields, sep) ==
    IF fields = <<>> THEN <<>>
    ELSE IF Len(fields) = 1 THEN fields[1]
    ELSE fields[1] \o <<sep>> \o Join(Tail(fields), sep)

\* parts[:-1] and parts[-1]
ButLast(parts) == SubSeq(parts, 1, Len(parts) - 1)
Last(parts)    == parts[Len(parts)]

\* The extractor's output line for one record: the features, then the label.
WriteRecord(r) == Join(r.feats \o <<r.label>>, COMMA) \o <<NL>>

----------------------------------------------------------------------------
(* filter_features *)

\* A plausible slip: the granularity is never switched to detailed.
use_detailed_never(allowed_groups) == FALSE

use_detailed(allowed_groups) == (allowed_groups \cap EXTENDED_SUBGROUPS) # {}

\* A plausible slip: a token without a group is kept.
filter_line_keeps_unmapped(line, allowed_groups) ==
    LET parts == Split(Strip(line), COMMA)
        feats == ButLast(parts)
        label == Last(parts)
        kept  == SelectSeq(feats, LAMBDA f :
                     \/ group_for_feature(f, use_detailed(allowed_groups)) = None
                     \/ group_for_feature(f, use_detailed(allowed_groups)) \in allowed_groups)
    IN  Join(kept \o <<label>>, COMMA) \o <<NL>>

\* A plausible slip: the label is not appended to the kept features.
filter_line_no_label(line, allowed_groups) ==
    LET parts == Split(Strip(line), COMMA)
        feats == ButLast(parts)
        kept  == SelectSeq(feats, LAMBDA f :
                     group_for_feature(f, use_detailed(allowed_groups)) \in allowed_groups)
    IN  Join(kept, COMMA) \o <<NL>>

\* A plausible slip: the label is written first instead of last.
filter_line_label_first(line, allowed_groups) ==
    LET parts == Split(Strip(line), COMMA)
        feats == ButLast(parts)
        label == Last(parts)
        kept  == SelectSeq(feats, LAMBDA f :
                     group_for_feature(f, use_detailed(allowed_groups)) \in allowed_groups)
    IN  Join(<<label>> \o kept, COMMA) \o <<NL>>

\* One iteration of the loop over the lines of full_path.
filter_line(line, allowed_groups) ==
    LET parts == Split(Strip(line), COMMA)
        feats == ButLast(parts)
        label == Last(parts)
        kept  == SelectSeq(feats, LAMBDA f :
                     group_for_feature(f, use_detailed(allowed_groups)) \in allowed_groups)
    IN  Join(kept \o <<label>>, COMMA) \o <<NL>>

\* The file written to dest_path: one line per line of full_path.
filter_features(full, allowed_groups) ==
    [i \in 1..Len(full) |-> filter_line(full[i], allowed_groups)]

----------------------------------------------------------------------------
(* assert_no_unknown_features *)

\* The base names (the text before the first "=") of the features of the
\* files that the coarse taxonomy does not map.
UnknownNames(files) ==
    { Split(f, EQ)[1] :
        f \in { g \in UNION { Range(ButLast(Split(Strip(line), COMMA))) :
                               line \in UNION { Range(file) : file \in Range(files) } } :
                    group_for_feature(g, FALSE) = None } }

\* The guard: it raises, naming the unknown base names, or returns.
assert_no_unknown_features(files) ==
    IF UnknownNames(files) # {}
        THEN [raised |-> "RuntimeError", unknown |-> UnknownNames(files)]
        ELSE [raised |-> "no", unknown |-> {}]

----------------------------------------------------------------------------
(* extract_features.py *)

\* A plausible slip: the boundaries compared with <= instead of <.
bucket_age_boundary_high(age_months) ==
    IF age_months = <<>> THEN <<"UNK">>
    ELSE IF age_months[1] <= 12 THEN <<"0yo">>
    ELSE IF age_months[1] <= 24 THEN <<"1yo">>
    ELSE IF age_months[1] <= 36 THEN <<"2yo">>
    ELSE IF age_months[1] <= 48 THEN <<"3yo">>
    ELSE IF age_months[1] <= 60 THEN <<"4yo">>
    ELSE IF age_months[1] <= 72 THEN <<"5yo">>
    ELSE <<"6yo", US, "plus">>

\* age_months is <<>> when missing (None or NaN) and <<m>> otherwise.
bucket_age(age_months) ==
    IF age_months = <<>> THEN <<"UNK">>
    ELSE IF age_months[1] < 12 THEN <<"0yo">>
    ELSE IF age_months[1] < 24 THEN <<"1yo">>
    ELSE IF age_months[1] < 36 THEN <<"2yo">>
    ELSE IF age_months[1] < 48 THEN <<"3yo">>
    ELSE IF age_months[1] < 60 THEN <<"4yo">>
    ELSE IF age_months[1] < 72 THEN <<"5yo">>
    ELSE <<"6yo", US, "plus">>

\* The words an utterance of the model is made of, as clean_data.py leaves
\* them (lower case), and a comma standing alone.
Vocabulary == { "i", "want", "dogs", "not", "because", "what", "xxx", "can", "don't" }

UNINTELLIGIBLE_MARKERS == { "xxx", "yyy" }
QUESTION_WORDS == { "who", "what", "when", "where", "why", "how" }
syntactic_markers == << "because", "when", "that", "if", "so" >>

\* feature_constants.FUNCTION_WORDS and CONTRACTION_MAP, on the vocabulary
FUNCTION_WORDS == { "i", "not", "because", "what", "can", "do" }
CONTRACTION_MAP(tok) == IF tok = "don't" THEN << "do", "not" >> ELSE << tok >>

\* normalize_token: a word of the vocabulary is left as it is, a comma
\* standing alone is stripped to the empty string
normalize_token(tok) == IF tok = COMMA THEN "" ELSE tok

\* is_noun, is_verb and morpheme_count, and the test of the has_plural loop,
\* evaluated on the words of the vocabulary
is_noun(tok)        == tok \in { "dogs" }
is_verb(tok)        == tok \in { "want" }
morpheme_count(tok) == IF tok \in { "dogs", "don't" } THEN 2 ELSE 1
EndsWithS(tok)      == tok \in { "dogs" }

\* f"{num/den:.3f}"
Fmt3(num, den) ==
    LET v == Fmt(<<num, den>>, 3)
    IN  << ToString(v \div 1000), ".", ToString((v \div 100) % 10),
           ToString((v \div 10) % 10), ToString(v % 10) >>

Count(seq, Test(_)) == Len(SelectSeq(seq, Test))

\* The lists appended by a loop, one after the other.
RECURSIVE Flatten(_)
Flatten(seqs) == IF seqs = <<>> THEN <<>> ELSE Head(seqs) \o Flatten(Tail(seqs))

FlatMap(seq, F(_)) == Flatten([i \in 1..Len(seq) |-> F(seq[i])])

\* The line written for one row of the input table.  has_vbd tells whether
\* the tagger gave some token the tag VBD.
extract_row(row, extended_features) ==
    LET utter        == row.utter
        label        == bucket_age(row.age_months)
        tokens       == SelectSeq([i \in 1..Len(utter) |-> normalize_token(utter[i])],
                                  LAMBDA t : t # "")
        lower_tokens == tokens
        num_tokens   == Len(tokens)
        distinct     == Cardinality(Range(lower_tokens))
        expanded     == FlatMap(lower_tokens, CONTRACTION_MAP)
        expanded_len == Len(expanded)
        function_word_hits == SelectSeq(expanded, LAMBDA t : t \in FUNCTION_WORDS)
        func_count   == Len(function_word_hits)
        func_types   == Cardinality(Range(function_word_hits))
        morph_count  == SumTo([i \in 1..num_tokens |-> morpheme_count(tokens[i])], num_tokens)
        unintelligible_count == Count(lower_tokens, LAMBDA t : t \in UNINTELLIGIBLE_MARKERS)
        noun_count   == Count(lower_tokens, is_noun)
        verb_count   == Count(lower_tokens, is_verb)
        Ratio(a, b)  == IF b > 0 THEN Fmt3(a, b) ELSE Fmt3(0, 1)
        basic ==
            << N2("word", "count") \o <<ToString(num_tokens)>>,
               N1("ttr") \o Ratio(distinct, num_tokens) >>
            \o (IF num_tokens > 0
                    THEN << N2("first", "word") \o <<tokens[1]>>,
                            N2("last", "word") \o <<tokens[num_tokens]>> >>
                    ELSE <<>>)
            \o << N3("function", "word", "prop") \o Ratio(func_count, expanded_len),
                  N3("function", "word", "types") \o <<ToString(func_types)>>,
                  N2("mlu", "morphemes") \o Ratio(morph_count, num_tokens),
                  N2("unintelligible", "count") \o <<ToString(unintelligible_count)>>,
                  N2("unintelligible", "prop") \o Ratio(unintelligible_count, num_tokens) >>
            \o (IF unintelligible_count > 0 THEN <<HasUnintelligible>> ELSE <<>>)
            \o << N2("prop", "nouns") \o Ratio(noun_count, num_tokens),
                  N2("prop", "verbs") \o Ratio(verb_count, num_tokens) >>
            \o (IF num_tokens >= 2 /\ lower_tokens[1] = "i" /\ lower_tokens[2] = "want"
                    THEN << <<"frame", US, "i", US, "want">> >> ELSE <<>>)
            \o (IF num_tokens >= 2 /\ lower_tokens[1] = "can" /\ lower_tokens[2] = "i"
                    THEN << <<"frame", US, "can", US, "i">> >> ELSE <<>>)
            \o (IF \E w \in QUESTION_WORDS : w \in Range(lower_tokens)
                    THEN << <<"has", US, "question">> >> ELSE <<>>)
        ext ==
            [i \in 1..(IF num_tokens > 1 THEN num_tokens - 1 ELSE 0) |->
                N1("bigram") \o <<lower_tokens[i], US, lower_tokens[i + 1]>>]
            \o [i \in 1..(IF num_tokens > 2 THEN num_tokens - 2 ELSE 0) |->
                N1("trigram") \o <<lower_tokens[i], US, lower_tokens[i + 1], US,
                                   lower_tokens[i + 2]>>]
            \o FlatMap(syntactic_markers,
                       LAMBDA sm : IF sm \in Range(lower_tokens)
                                       THEN << MarkerPrefix \o <<sm>> >> ELSE <<>>)
            \o FlatMap(lower_tokens,
                       LAMBDA t : IF EndsWithS(t) THEN << <<"has", US, "plural">> >> ELSE <<>>)
            \o (IF "not" \in Range(lower_tokens) \/ "don't" \in Range(lower_tokens)
                    THEN << <<"has", US, "negation">> >> ELSE <<>>)
            \o (IF num_tokens > 0 /\ row.has_vbd
                    THEN << <<"has", US, "past", US, "tense">> >> ELSE <<>>)
            \o << N1("utter")
                    \o Join([i \in 1..Len(utter) |->
                                <<IF utter[i] = COMMA THEN "<COMMA>" ELSE utter[i]>>], SP) >>
        features == basic \o (IF extended_features THEN ext ELSE <<>>) \o <<label>>
    IN  Join(features, COMMA) \o <<NL>>

\* The file written for the rows of one input table.
extract_features(df, extended_features) ==
    [i \in 1..Len(df) |-> extract_row(df[i], extended_features)]

----------------------------------------------------------------------------
(* score.py *)

UNK == <<"UNK">>

AGE_BIN_ORDER ==
    << <<"0yo">>, <<"1yo">>, <<"2yo">>, <<"3yo">>, <<"4yo">>, <<"5yo">>,
       <<"6yo", US, "plus">> >>

\* AGE_BIN_TO_INDEX.get(label, -1)
AGE_BIN_TO_INDEX(label) ==
    IF \E i \in DOMAIN AGE_BIN_ORDER : AGE_BIN_ORDER[i] = label
        THEN (CHOOSE i \in DOMAIN AGE_BIN_ORDER : AGE_BIN_ORDER[i] = label) - 1
        ELSE -1

\* AGE_BIN_TO_MONTHS.get(label, 0)
AGE_BIN_TO_MONTHS(label) ==
    IF \E i \in DOMAIN AGE_BIN_ORDER : AGE_BIN_ORDER[i] = label
        THEN <<6, 18, 30, 42, 54, 66, 78>>
                 [CHOOSE i \in DOMAIN AGE_BIN_ORDER : AGE_BIN_ORDER[i] = label]
        ELSE 0

\* One printed line: its text, and the number formatted after it (places = -1: none)
Line(text)               == [text |-> text, value |-> 0, places |-> -1]
NumLine(text, v, places) == [text |-> text, value |-> v, places |-> places]

\* gold = [line.split(',')[-1] for line in gold_lines]
GoldLabels(gfile) ==
    [i \in 1..Len(gfile) |-> Last(Split(Strip(gfile[i]), COMMA))]

\* predicted = [x.strip().split(' ')[0] for x in pfile.readlines()]
PredictedLabels(pfile) ==
    [i \in 1..Len(pfile) |-> Split(Strip(pfile[i]), SP)[1]]

\* the block printed when the two lists differ in length; the statement after
\* it names sys.exit without calling it, so the script goes on
LengthErrorLines(gold, predicted) ==
    IF Len(gold) # Len(predicted)
        THEN << Line("ERROR: Different number of gold and predicted labels!"),
                NumLine("\tNum gold labels:", Len(gold), 0),
                NumLine("\tNum predicted labels:", Len(predicted), 0),
                Line("Exiting.") >>
        ELSE <<>>

\* for label in gold_counts: the sum of the recalls, over the product of the counts
RECURSIVE RecallSum(_, _, _)
RecallSum(labels, gold_counts, tp_counts) ==
    IF labels = {} THEN <<0, 1>>
    ELSE LET l    == CHOOSE x \in labels : TRUE
             rest == RecallSum(labels \ {l}, gold_counts, tp_counts)
         IN  << rest[1] * gold_counts[l] + tp_counts[l] * rest[2],
                rest[2] * gold_counts[l] >>

\* zip(gold, predicted) stops at the shorter list
ZipLen(gold, predicted) == Min(Len(gold), Len(predicted))

\* num_correct = sum([x[0]==x[1] for x in zip(gold, predicted)])
num_correct(gold, predicted) ==
    LET z == ZipLen(gold, predicted)
    IN  SumTo([i \in 1..z |-> IF gold[i] = predicted[i] THEN 1 ELSE 0], z)

\* A plausible slip: the within-1 test lets a pair two bins apart through.
within_1_correct_two_bins(gold, predicted) ==
    LET z == ZipLen(gold, predicted)
    IN  SumTo([i \in 1..z |->
                  IF /\ AGE_BIN_TO_INDEX(gold[i]) >= 0
                     /\ AGE_BIN_TO_INDEX(predicted[i]) >= 0
                     /\ Abs(AGE_BIN_TO_INDEX(gold[i]) - AGE_BIN_TO_INDEX(predicted[i])) <= 2
                      THEN 1 ELSE 0], z)

\* the within-1-bin loop
within_1_correct(gold, predicted) ==
    LET z == ZipLen(gold, predicted)
    IN  SumTo([i \in 1..z |->
                  IF /\ AGE_BIN_TO_INDEX(gold[i]) >= 0
                     /\ AGE_BIN_TO_INDEX(predicted[i]) >= 0
                     /\ Abs(AGE_BIN_TO_INDEX(gold[i]) - AGE_BIN_TO_INDEX(predicted[i])) <= 1
                      THEN 1 ELSE 0], z)

\* the macro-averaged recall, in percent
macro_recall(gold, predicted) ==
    LET z           == ZipLen(gold, predicted)
        labels      == { gold[i] : i \in 1..z }
        gold_counts == [l \in labels |-> Cardinality({ i \in 1..z : gold[i] = l })]
        tp_counts   == [l \in labels |->
                           Cardinality({ i \in 1..z : gold[i] = l /\ predicted[i] = l })]
        num_classes == Cardinality(labels)
        macro_recall_sum == RecallSum(labels, gold_counts, tp_counts)
    IN  IF num_classes > 0
            THEN <<macro_recall_sum[1] * 100, macro_recall_sum[2] * num_classes>>
            ELSE <<0, 1>>

\* the loop summing the bin distances
total_bin_error(gold, predicted) ==
    LET z == ZipLen(gold, predicted)
    IN  SumTo([i \in 1..z |->
                  IF AGE_BIN_TO_INDEX(gold[i]) >= 0 /\ AGE_BIN_TO_INDEX(predicted[i]) >= 0
                      THEN Abs(AGE_BIN_TO_INDEX(gold[i]) - AGE_BIN_TO_INDEX(predicted[i]))
                      ELSE 0], z)

\* the loop summing the distances of the bin midpoints
total_month_error(gold, predicted) ==
    LET z == ZipLen(gold, predicted)
    IN  SumTo([i \in 1..z |->
                  Abs(AGE_BIN_TO_MONTHS(gold[i]) - AGE_BIN_TO_MONTHS(predicted[i]))], z)

\* The values the script computes from the two lists (n > 0).
Metrics(gold, predicted) ==
    LET n == Len(gold)
    IN  [ accuracy          |-> <<num_correct(gold, predicted) * 100, n>>,
          within_1_accuracy |-> <<within_1_correct(gold, predicted) * 100, n>>,
          macro_recall      |-> macro_recall(gold, predicted),
          mae_bins          |-> <<total_bin_error(gold, predicted), n>>,
          mae_months        |-> <<total_month_error(gold, predicted), n>> ]

\* print("=" * 50)
Rule == Line("==================================================")

\* The report block.
ReportLines(m) ==
    << Rule, Line("EVALUATION METRICS"), Rule,
       NumLine("Exact Accuracy:", Fmt(m.accuracy, 2), 2),
       NumLine("Within-1-Bin Acc:", Fmt(m.within_1_accuracy, 2), 2),
       NumLine("Macro Recall:", Fmt(m.macro_recall, 2), 2),
       NumLine("MAE (bins):", Fmt(m.mae_bins, 3), 3),
       NumLine("MAE (months):", Fmt(m.mae_months, 2), 2),
       Rule >>

\* One run of the script: what it prints, the values it computed, its exit
\* status.  With no gold label the first division raises ZeroDivisionError.
score(gfile, pfile) ==
    LET gold      == GoldLabels(gfile)
        predicted == PredictedLabels(pfile)
        m         == Metrics(gold, predicted)
    IN  IF Len(gold) = 0
            THEN [ returncode |-> 1, stdout |-> LengthErrorLines(gold, predicted),
                   vals |-> NotRun ]
            ELSE [ returncode |-> 0,
                   stdout |-> LengthErrorLines(gold, predicted) \o ReportLines(m),
                   vals |-> m ]

----------------------------------------------------------------------------
(* score_model: what the driver makes of the scorer's run *)

\* re.search(heading + r"\s+([0-9.]+)", stdout)
Search(stdout, heading) ==
    { i \in 1..Len(stdout) : stdout[i].text = heading /\ stdout[i].places >= 0 }

\* float(match.group(1)) of the first match
Matched(stdout, heading) ==
    LET i == CHOOSE k \in Search(stdout, heading) : \A j \in Search(stdout, heading) : k <= j
    IN  <<stdout[i].value, Pow10(stdout[i].places)>>

RuntimeError(msg) == [raised |-> "RuntimeError", msg |-> msg]

\* The part of score_model after the scorer has run.
score_model_parse(res) ==
    IF res.returncode # 0 THEN RuntimeError("Scoring failed")
    ELSE IF Search(res.stdout, "Exact Accuracy:") = {}
        THEN RuntimeError("Could not parse accuracy")
    ELSE LET keys == {"accuracy"}
                 \cup (IF Search(res.stdout, "Within-1-Bin Acc:") # {}
                           THEN {"within_1_acc"} ELSE {})
                 \cup (IF Search(res.stdout, "MAE (bins):") # {}
                           THEN {"mae_bins"} ELSE {})
                 \cup (IF Search(res.stdout, "MAE (months):") # {}
                           THEN {"mae_months"} ELSE {})
             heading == [ accuracy |-> "Exact Accuracy:", within_1_acc |-> "Within-1-Bin Acc:",
                          mae_bins |-> "MAE (bins):", mae_months |-> "MAE (months):" ]
         IN  [ raised |-> "no",
               metrics |-> [k \in keys |-> Matched(res.stdout, heading[k])] ]

----------------------------------------------------------------------------
(* The experiment matrix *)

Exp(name, groups) == [name |-> name, groups |-> groups]

ADDITIVE_CONFIGS ==
    << Exp("lexical_only", {GROUP_LEXICAL}),
       Exp("lexical_function", {GROUP_LEXICAL, GROUP_FUNCTION}),
       Exp("+morphology", {GROUP_LEXICAL, GROUP_FUNCTION, GROUP_MORPH}),
       Exp("+intelligibility", {GROUP_LEXICAL, GROUP_FUNCTION, GROUP_MORPH, GROUP_INTEL}),
       Exp("baseline_no_extended",
           {GROUP_LEXICAL, GROUP_FUNCTION, GROUP_MORPH, GROUP_INTEL, GROUP_CLASS_PROP}),
       Exp("full_extended", ALL_GROUPS) >>

\* A plausible slip: a row copied from the one above still removes its group.
ABLATION_CONFIGS_copied_row ==
    << Exp("full_minus_lexical", ALL_GROUPS \ {GROUP_LEXICAL}),
       Exp("full_minus_function_words", ALL_GROUPS \ {GROUP_FUNCTION}),
       Exp("full_minus_morphology", ALL_GROUPS \ {GROUP_FUNCTION}),
       Exp("full_minus_intelligibility", ALL_GROUPS \ {GROUP_INTEL}),
       Exp("full_minus_word_class_props", ALL_GROUPS \ {GROUP_CLASS_PROP}),
       Exp("full_minus_extended", ALL_GROUPS \ {GROUP_EXTENDED}) >>

ABLATION_CONFIGS ==
    << Exp("full_minus_lexical", ALL_GROUPS \ {GROUP_LEXICAL}),
       Exp("full_minus_function_words", ALL_GROUPS \ {GROUP_FUNCTION}),
       Exp("full_minus_morphology", ALL_GROUPS \ {GROUP_MORPH}),
       Exp("full_minus_intelligibility", ALL_GROUPS \ {GROUP_INTEL}),
       Exp("full_minus_word_class_props", ALL_GROUPS \ {GROUP_CLASS_PROP}),
       Exp("full_minus_extended", ALL_GROUPS \ {GROUP_EXTENDED}) >>

\* A plausible slip: the last row copied from the additive chain keeps its name.
EXTENDED_ADDITIVE_CONFIGS_copied_name ==
    << Exp("baseline+bigrams", BASELINE_GROUPS \cup {GROUP_EXT_BIGRAMS}),
       Exp("baseline+trigrams", BASELINE_GROUPS \cup {GROUP_EXT_TRIGRAMS}),
       Exp("baseline+pos", BASELINE_GROUPS \cup {GROUP_EXT_POS}),
       Exp("baseline+pos_bigrams", BASELINE_GROUPS \cup {GROUP_EXT_POS_BIGRAMS}),
       Exp("baseline+pos_trigrams", BASELINE_GROUPS \cup {GROUP_EXT_POS_TRIGRAMS}),
       Exp("baseline+markers", BASELINE_GROUPS \cup {GROUP_EXT_MARKERS}),
       Exp("full_extended", ALL_GROUPS_DETAILED) >>

EXTENDED_ADDITIVE_CONFIGS ==
    << Exp("baseline+bigrams", BASELINE_GROUPS \cup {GROUP_EXT_BIGRAMS}),
       Exp("baseline+trigrams", BASELINE_GROUPS \cup {GROUP_EXT_TRIGRAMS}),
       Exp("baseline+pos", BASELINE_GROUPS \cup {GROUP_EXT_POS}),
       Exp("baseline+pos_bigrams", BASELINE_GROUPS \cup {GROUP_EXT_POS_BIGRAMS}),
       Exp("baseline+pos_trigrams", BASELINE_GROUPS \cup {GROUP_EXT_POS_TRIGRAMS}),
       Exp("baseline+markers", BASELINE_GROUPS \cup {GROUP_EXT_MARKERS}),
       Exp("full_detailed", ALL_GROUPS_DETAILED) >>

EXTENDED_ABLATION_CONFIGS ==
    << Exp("full_minus_bigrams", ALL_GROUPS_DETAILED \ {GROUP_EXT_BIGRAMS}),
       Exp("full_minus_trigrams", ALL_GROUPS_DETAILED \ {GROUP_EXT_TRIGRAMS}),
       Exp("full_minus_pos", ALL_GROUPS_DETAILED \ {GROUP_EXT_POS}),
       Exp("full_minus_pos_bigrams", ALL_GROUPS_DETAILED \ {GROUP_EXT_POS_BIGRAMS}),
       Exp("full_minus_pos_trigrams", ALL_GROUPS_DETAILED \ {GROUP_EXT_POS_TRIGRAMS}),
       Exp("full_minus_markers", ALL_GROUPS_DETAILED \ {GROUP_EXT_MARKERS}) >>

\* main's experiments list: the four catalogues, each row tagged with its type
Tagged(type, configs) ==
    [i \in 1..Len(configs) |->
        [type |-> type, name |-> configs[i].name, groups |-> configs[i].groups]]

\* A plausible slip: the ablation rows are added before the additive rows.
experiments_ablation_first ==
    Tagged("ablation", ABLATION_CONFIGS) \o Tagged("additive", ADDITIVE_CONFIGS)
        \o Tagged("ext_additive", EXTENDED_ADDITIVE_CONFIGS)
        \o Tagged("ext_ablation", EXTENDED_ABLATION_CONFIGS)

experiments ==
    Tagged("additive", ADDITIVE_CONFIGS) \o Tagged("ablation", ABLATION_CONFIGS)
        \o Tagged("ext_additive", EXTENDED_ADDITIVE_CONFIGS)
        \o Tagged("ext_ablation", EXTENDED_ABLATION_CONFIGS)

----------------------------------------------------------------------------
(* Inputs of the model *)

\* Bounds
MaxRecords == 1
MaxFeats   == 2
MaxLabels  == 3
MaxWords   == 3
MaxAge     == 84

\* Values after the "=": empty, a number, a word pair, text holding "=" and " "
SampleValues == { <<>>, <<"3">>, <<"a", US, "b">>, <<"x", EQ, "y", SP, "z">> }

\* Every name pattern of the taxonomy, and names it does not know.
KnownPrefixes ==
    LexicalPrefixes \cup FunctionPrefixes \cup MorphPrefixes \cup IntelPrefixes
        \cup ClassPropPrefixes
        \cup { N1("bigram"), N1("trigram"), N1("pos"), N2("pos", "bigram"),
               N2("pos", "trigram") }

UnknownPrefixes == { N1("utter"), N2("pos", "quadgram"), N1("mlu"), N2("has", "ing") }

KnownFlags ==
    MorphFlags \cup {HasUnintelligible} \cup MarkerFlags
        \cup { MarkerPrefix \o <<"because">>, MarkerPrefix \o <<"so">>, MarkerPrefix }

UnknownFlags ==
    { <<"frame", US, "i", US, "want">>, <<"frame", US, "can", US, "i">>,
      <<"has", US, "question">>, <<"has", US, "past", US, "tense">>,
      <<"has", US, "marker">>, <<"1yo">>, <<"6yo", US, "plus">>, <<>> }

\* feature strings: name=value for every prefix, the bare names, the flags,
\* and the flags followed by "=value"
FeatureUniverse ==
    { p \o v : p \in KnownPrefixes \cup UnknownPrefixes, v \in SampleValues }
        \cup { ButLast(p) : p \in KnownPrefixes }
        \cup KnownFlags \cup UnknownFlags
        \cup { f \o <<EQ, "1">> : f \in KnownFlags }

\* The features the filter model draws its records from: one of a coarse-only
\* group, two of extended_syntax in different sub-groups, one unmapped.
FilterFeatures ==
    { N2("word", "count") \o <<"3">>, N1("bigram") \o <<"a", US, "b">>,
      <<"has", US, "plural">>, N1("utter") \o <<"a", SP, "b">> }

FilterLabels == { <<"1yo">>, <<"6yo", US, "plus">> }

FilterRecords ==
    { [feats |-> fs, label |-> l] : fs \in SeqsUpTo(FilterFeatures, MaxFeats),
                                     l \in FilterLabels }

\* allowed_groups: every row of the matrix, the empty set, and sets mixing
\* the coarse group with its sub-groups
AllowedSets ==
    { experiments[i].groups : i \in DOMAIN experiments }
        \cup { {}, {GROUP_EXTENDED}, {GROUP_EXT_BIGRAMS},
               {GROUP_EXTENDED, GROUP_EXT_BIGRAMS},
               {GROUP_LEXICAL, GROUP_EXTENDED, GROUP_EXT_MARKERS} }

----------------------------------------------------------------------------
(* Specification of the taxonomy: both calls of group_for_feature on one feature *)

TaxIdle == feat = <<>> /\ coarse = Unset /\ fine = Unset

FilterIdle ==
    /\ recs = <<>> /\ src = <<>> /\ allowed = {}
    /\ dst = <<>> /\ dst2 = <<>> /\ fpc = "idle"

ScoreIdle ==
    /\ gold_file = <<>> /\ prediction_file = <<>>
    /\ score_res = NotRun /\ parsed = NotRun

ExtractIdle ==
    /\ rows = <<>> /\ extended = FALSE /\ events = <<>> /\ guard = NotRun
    /\ epc = "idle"

MainIdle ==
    /\ extractor_out = <<>> /\ clf = "idle" /\ mpc = "idle"
    /\ split_i = 1 /\ exp_i = 1 /\ run_i = 0
    /\ full_paths = <<>> /\ filtered = <<>> /\ models = {}
    /\ apply_out = <<>> /\ dev_metrics_list = <<>> /\ results = <<>>
    /\ table = NotRun /\ err = NotRun /\ guard_res = NotRun
    /\ guard_runs = 0 /\ exp_steps = 0 /\ writes = 0

InitTaxonomy ==
    /\ feat \in FeatureUniverse
    /\ coarse = Unset
    /\ fine = Unset
    /\ FilterIdle
    /\ ScoreIdle
    /\ ExtractIdle
    /\ MainIdle

ClassifyCoarse ==
    /\ coarse = Unset
    /\ coarse' = group_for_feature(feat, FALSE)
    /\ UNCHANGED <<feat, fine, filterVars, scoreVars, extractVars, mainVars>>

ClassifyDetailed ==
    /\ fine = Unset
    /\ fine' = group_for_feature(feat, TRUE)
    /\ UNCHANGED <<feat, coarse, filterVars, scoreVars, extractVars, mainVars>>

NextTaxonomy == ClassifyCoarse \/ ClassifyDetailed

SpecTaxonomy == InitTaxonomy /\ [][NextTaxonomy]_vars

----------------------------------------------------------------------------
(* Specification of the filter: filter_features on a full file, then on its output *)

InitFilter ==
    /\ TaxIdle
    /\ ScoreIdle
    /\ ExtractIdle
    /\ MainIdle
    /\ recs \in SeqsUpTo(FilterRecords, MaxRecords)
    /\ src = [i \in 1..Len(recs) |-> WriteRecord(recs[i])]
    /\ allowed \in AllowedSets
    /\ dst = <<>>
    /\ dst2 = <<>>
    /\ fpc = "start"

FilterOnce ==
    /\ fpc = "start"
    /\ dst' = filter_features(src, allowed)
    /\ fpc' = "filtered"
    /\ UNCHANGED <<recs, src, allowed, dst2, taxVars, scoreVars, extractVars, mainVars>>

FilterAgain ==
    /\ fpc = "filtered"
    /\ dst2' = filter_features(dst, allowed)
    /\ fpc' = "refiltered"
    /\ UNCHANGED <<recs, src, allowed, dst, taxVars, scoreVars, extractVars, mainVars>>

NextFilter == FilterOnce \/ FilterAgain

SpecFilter == InitFilter /\ [][NextFilter]_vars

----------------------------------------------------------------------------
(* Specification of the two full views: filter_features on one full file for  *)
(* the experiment full_extended, then for the experiment full_detailed        *)

\* The records of the full file: those of the filter model, and one record
\* for every feature string of the taxonomy model.
FullViewRecords ==
    FilterRecords \cup { [feats |-> <<f>>, label |-> <<"1yo">>] : f \in FeatureUniverse }

InitFullViews ==
    /\ TaxIdle
    /\ ScoreIdle
    /\ ExtractIdle
    /\ MainIdle
    /\ recs \in SeqsUpTo(FullViewRecords, MaxRecords)
    /\ src = [i \in 1..Len(recs) |-> WriteRecord(recs[i])]
    /\ allowed = ADDITIVE_CONFIGS[6].groups
    /\ dst = <<>>
    /\ dst2 = <<>>
    /\ fpc = "start"

\* train_and_eval("full_extended", ALL_GROUPS, ...): the filter of one split
FilterFullExtended ==
    /\ fpc = "start"
    /\ dst' = filter_features(src, allowed)
    /\ fpc' = "coarse_view"
    /\ UNCHANGED <<recs, src, allowed, dst2, taxVars, scoreVars, extractVars, mainVars>>

\* train_and_eval("full_detailed", ALL_GROUPS_DETAILED, ...): the same split
FilterFullDetailed ==
    /\ fpc = "coarse_view"
    /\ allowed' = EXTENDED_ADDITIVE_CONFIGS[7].groups
    /\ dst2' = filter_features(src, allowed')
    /\ fpc' = "both_views"
    /\ UNCHANGED <<recs, src, dst, taxVars, scoreVars, extractVars, mainVars>>

NextFullViews == FilterFullExtended \/ FilterFullDetailed

SpecFullViews == InitFullViews /\ [][NextFullViews]_vars

----------------------------------------------------------------------------
(* Specification of the scorer: score.py on a gold file and a prediction      *)
(* stream, then score_model reading its exit status and its report            *)

\* The labels the lists are drawn from: adjacent bins, bins two apart and
\* the unresolvable label.
ScoreLabels == { <<"1yo">>, <<"2yo">>, <<"3yo">>, UNK }

\* A line of the gold file: a filtered record ending in its label.
GoldLine(label) ==
    WriteRecord([feats |-> << N2("word", "count") \o <<"3">> >>, label |-> label])

\* A line of the classifier's output: the predicted label, then its score.
PredictionLine(label) == label \o <<SP, "0.9", NL>>

InitScore ==
    /\ TaxIdle
    /\ FilterIdle
    /\ ExtractIdle
    /\ MainIdle
    /\ \E gs \in SeqsUpTo(ScoreLabels, MaxLabels) :
           gold_file = [i \in 1..Len(gs) |-> GoldLine(gs[i])]
    /\ \E ps \in SeqsUpTo(ScoreLabels, MaxLabels) :
           prediction_file = [i \in 1..Len(ps) |-> PredictionLine(ps[i])]
    /\ score_res = NotRun
    /\ parsed = NotRun

RunScore ==
    /\ score_res = NotRun
    /\ score_res' = score(gold_file, prediction_file)
    /\ UNCHANGED <<gold_file, prediction_file, parsed, taxVars, filterVars, extractVars, mainVars>>

ScoreModelParse ==
    /\ score_res # NotRun
    /\ parsed = NotRun
    /\ parsed' = score_model_parse(score_res)
    /\ UNCHANGED <<gold_file, prediction_file, score_res, taxVars, filterVars, extractVars, mainVars>>

NextScore == RunScore \/ ScoreModelParse

SpecScore == InitScore /\ [][NextScore]_vars

----------------------------------------------------------------------------
(* Specification of the extractor: extract_features.py on an input table of   *)
(* at most one row, then assert_no_unknown_features on the file it wrote      *)

\* An utterance: words of the vocabulary and commas standing alone.
Utterances == SeqsUpTo(Vocabulary \cup {COMMA}, MaxWords)

\* age_months of a row: missing, and the two sides of a bucket boundary
Ages == { <<>>, <<23>>, <<24>> }

InputRows ==
    { [utter |-> u, age_months |-> a, has_vbd |-> v] :
        u \in Utterances, a \in Ages, v \in BOOLEAN }

InitExtract ==
    /\ TaxIdle
    /\ FilterIdle
    /\ ScoreIdle
    /\ MainIdle
    /\ rows \in { <<>> } \cup { <<r>> : r \in InputRows }
    /\ extended \in BOOLEAN
    /\ events = <<>>
    /\ guard = NotRun
    /\ epc = "start"

RunExtractor ==
    /\ epc = "start"
    /\ events' = extract_features(rows, extended)
    /\ epc' = "extracted"
    /\ UNCHANGED <<rows, extended, guard, taxVars, filterVars, scoreVars, mainVars>>

RunGuard ==
    /\ epc = "extracted"
    /\ guard' = assert_no_unknown_features(<<events>>)
    /\ epc' = "guarded"
    /\ UNCHANGED <<rows, extended, events, taxVars, filterVars, scoreVars, mainVars>>

NextExtract == RunExtractor \/ RunGuard

SpecExtract == InitExtract /\ [][NextExtract]_vars

----------------------------------------------------------------------------
(* Specification of the age buckets: the extractor on a table of two rows     *)
(* whose ages range over the months, or are missing                           *)

AgeRange == { <<>> } \cup { <<m>> : m \in 0..MaxAge }

InitBucket ==
    /\ TaxIdle
    /\ FilterIdle
    /\ ScoreIdle
    /\ MainIdle
    /\ \E a, b \in AgeRange :
           rows = << [utter |-> <<"i">>, age_months |-> a, has_vbd |-> FALSE],
                     [utter |-> <<"want", "dogs">>, age_months |-> b, has_vbd |-> FALSE] >>
    /\ extended = FALSE
    /\ events = <<>>
    /\ guard = NotRun
    /\ epc = "start"

NextBucket == RunExtractor

SpecBucket == InitBucket /\ [][NextBucket]_vars

----------------------------------------------------------------------------
(* Specification of the harness: main of evaluate_feature_impacts.py, one    *)
(* action per blocking step.  The extractor and the classifier are separate  *)
(* processes; what they leave behind is drawn in the initial state, whether  *)
(* each of them exits non-zero is decided at the step that runs it.          *)

SPLITS == <<"train", "dev", "test">>
RUNS_PER_CONFIG == 1

\* The file the repository's extractor writes with -e for one utterance.
ExtractedFile ==
    extract_features(<< [utter |-> <<"i", "want", "dogs">>, age_months |-> <<23>>,
                         has_vbd |-> FALSE] >>, TRUE)

\* A full-feature file all of whose names the taxonomy maps.
MappedFile ==
    << WriteRecord([feats |-> << N2("word", "count") \o <<"3">>,
                                 N1("bigram") \o <<"a", US, "b">>,
                                 <<"has", US, "plural">> >>, label |-> <<"1yo">>]),
       WriteRecord([feats |-> << N2("word", "count") \o <<"3">> >>, label |-> <<"2yo">>]) >>

MainFiles == { <<>>, ExtractedFile, MappedFile }

\* How bin/classify apply answers: one line per record with a fixed label,
\* or one line too few.
Classifiers == { "says_1yo", "says_2yo", "one_line_short" }

ClassifyApply(c, eval_file) ==
    LET n == IF c = "one_line_short" /\ Len(eval_file) > 0
                 THEN Len(eval_file) - 1 ELSE Len(eval_file)
        label == IF c = "says_2yo" THEN <<"2yo">> ELSE <<"1yo">>
    IN  [i \in 1..n |-> PredictionLine(label)]

\* Paths under filtered/ and models/
filtered_path(config_name, split) == <<config_name, split>>
model_path(config_name) == config_name

\* path.open("w"): the file is created or replaced
WriteFile(disk, path, content) ==
    [q \in DOMAIN disk \cup {path} |-> IF q = path THEN content ELSE disk[q]]

InitMain ==
    /\ TaxIdle
    /\ FilterIdle
    /\ ScoreIdle
    /\ ExtractIdle
    /\ extractor_out \in [1..3 -> MainFiles]
    /\ clf \in Classifiers
    /\ mpc = "extract"
    /\ split_i = 1 /\ exp_i = 1 /\ run_i = 0
    /\ full_paths = <<>> /\ filtered = <<>> /\ models = {}
    /\ apply_out = <<>> /\ dev_metrics_list = <<>> /\ results = <<>>
    /\ table = NotRun /\ err = NotRun /\ guard_res = NotRun
    /\ guard_runs = 0 /\ exp_steps = 0 /\ writes = 0

\* An exception leaving main: the process ends.  msg holds the parts of the
\* message.
Abort(msg) ==
    /\ mpc' = "aborted"
    /\ err' = RuntimeError(msg)

\* build_full_features, one pass of its loop with the extractor exiting 0
ExtractSplit ==
    /\ mpc = "extract"
    /\ full_paths' = Append(full_paths, extractor_out[split_i])
    /\ IF split_i < Len(SPLITS)
           THEN split_i' = split_i + 1 /\ mpc' = "extract"
           ELSE split_i' = 1 /\ mpc' = "guard"
    /\ UNCHANGED <<extractor_out, clf, exp_i, run_i, filtered, models, apply_out,
                   dev_metrics_list, results, table, err, guard_res,
                   guard_runs, exp_steps, writes,
                   taxVars, filterVars, scoreVars, extractVars>>

\* build_full_features, the extractor exiting non-zero
ExtractFails ==
    /\ mpc = "extract"
    /\ Abort([what |-> "feature extraction", split |-> SPLITS[split_i]])
    /\ UNCHANGED <<extractor_out, clf, split_i, exp_i, run_i, full_paths, filtered, models,
                   apply_out, dev_metrics_list, results, table, guard_res,
                   guard_runs, exp_steps, writes,
                   taxVars, filterVars, scoreVars, extractVars>>

\* The guard with its exception swallowed: the run goes on to the experiments.
GuardSwallowed ==
    /\ mpc = "guard"
    /\ LET res == assert_no_unknown_features(full_paths)
       IN  guard_res' = [raised |-> res.raised, unknown |-> res.unknown,
                         files |-> full_paths]
    /\ guard_runs' = guard_runs + 1
    /\ mpc' = "filter"
    /\ UNCHANGED <<extractor_out, clf, split_i, exp_i, run_i, full_paths, filtered, models,
                   apply_out, dev_metrics_list, results, table, err, exp_steps, writes,
                   taxVars, filterVars, scoreVars, extractVars>>

\* main's call of assert_no_unknown_features(full_paths.values())
Guard ==
    /\ mpc = "guard"
    /\ LET res == assert_no_unknown_features(full_paths)
       IN  /\ guard_res' = [raised |-> res.raised, unknown |-> res.unknown,
                            files |-> full_paths]
           /\ guard_runs' = guard_runs + 1
           /\ IF res.raised = "RuntimeError"
                  THEN Abort([what |-> "Unmapped features found", unknown |-> res.unknown])
                  ELSE mpc' = "filter" /\ err' = err
    /\ UNCHANGED <<extractor_out, clf, split_i, exp_i, run_i, full_paths, filtered, models,
                   apply_out, dev_metrics_list, results, table, exp_steps, writes,
                   taxVars, filterVars, scoreVars, extractVars>>


\* sum(m[k] for m in metrics_list)
RECURSIVE RatSum(_, _, _)
RatSum(metrics_list, k, n) ==
    IF n = 0 THEN <<0, 1>>
    ELSE LET rest == RatSum(metrics_list, k, n - 1)
             x    == metrics_list[n][k]
         IN  <<rest[1] * x[2] + x[1] * rest[2], rest[2] * x[2]>>

avg_metrics(metrics_list) ==
    IF metrics_list = <<>> THEN <<>>
    ELSE [k \in DOMAIN metrics_list[1] |->
            LET total == RatSum(metrics_list, k, Len(metrics_list))
            IN  <<total[1], total[2] * Len(metrics_list)>>]

\* metrics.get(k, 0)
Get(metrics, k) == IF k \in DOMAIN metrics THEN metrics[k] ELSE <<0, 1>>

\* sorted(groups): the group names in string order
SortedGroupNames ==
    << GROUP_EXT_BIGRAMS, GROUP_EXT_MARKERS, GROUP_EXT_POS, GROUP_EXT_POS_BIGRAMS,
       GROUP_EXT_POS_TRIGRAMS, GROUP_EXT_TRIGRAMS, GROUP_EXTENDED, GROUP_FUNCTION,
       GROUP_INTEL, GROUP_LEXICAL, GROUP_MORPH, GROUP_CLASS_PROP >>

sorted(groups) == SelectSeq(SortedGroupNames, LAMBDA g : g \in groups)

\* the row main appends for an experiment
ResultRow(e, metrics) ==
    [ config |-> e.name, type |-> e.type,
      groups |-> Join(sorted(e.groups), COMMA),
      runs |-> RUNS_PER_CONFIG,
      accuracy |-> metrics["accuracy"],
      within_1_acc |-> Get(metrics, "within_1_acc"),
      mae_bins |-> Get(metrics, "mae_bins"),
      mae_months |-> Get(metrics, "mae_months") ]

\* The file write_results leaves: the heading, then one line per row with
\* the metrics formatted to their places.
write_results(rs) ==
    [ header |-> <<"config", "type", "groups_included", "runs",
                   "accuracy", "within_1_acc", "mae_bins", "mae_months">>,
      lines |-> [i \in 1..Len(rs) |->
                    [ config |-> rs[i].config, type |-> rs[i].type,
                      groups_included |-> rs[i].groups, runs |-> rs[i].runs,
                      accuracy |-> Fmt(rs[i].accuracy, 2),
                      within_1_acc |-> Fmt(rs[i].within_1_acc, 2),
                      mae_bins |-> Fmt(rs[i].mae_bins, 3),
                      mae_months |-> Fmt(rs[i].mae_months, 2) ]] ]

\* train_and_eval, one pass of its filter loop
FilterSplit ==
    /\ mpc = "filter"
    /\ LET e == experiments[exp_i]
       IN  filtered' = WriteFile(filtered, filtered_path(e.name, SPLITS[split_i]),
                                 filter_features(full_paths[split_i], e.groups))
    /\ exp_steps' = exp_steps + 1
    /\ IF split_i < Len(SPLITS)
           THEN split_i' = split_i + 1 /\ mpc' = "filter"
           ELSE split_i' = 1 /\ mpc' = "train"
    /\ dev_metrics_list' = <<>>
    /\ run_i' = 0
    /\ UNCHANGED <<extractor_out, clf, exp_i, full_paths, models, apply_out,
                   results, table, err, guard_res, guard_runs, writes,
                   taxVars, filterVars, scoreVars, extractVars>>

\* bin/classify train exiting 0: the model artifact is on disk
Train ==
    /\ mpc = "train"
    /\ models' = models \cup {model_path(experiments[exp_i].name)}
    /\ exp_steps' = exp_steps + 1
    /\ mpc' = "apply"
    /\ UNCHANGED <<extractor_out, clf, split_i, exp_i, run_i, full_paths, filtered, apply_out,
                   dev_metrics_list, results, table, err, guard_res, guard_runs, writes,
                   taxVars, filterVars, scoreVars, extractVars>>

\* bin/classify train exiting non-zero, with or without an artifact left
TrainFails ==
    /\ mpc = "train"
    /\ \E left \in BOOLEAN :
           models' = IF left THEN models \cup {model_path(experiments[exp_i].name)}
                             ELSE models
    /\ exp_steps' = exp_steps + 1
    /\ Abort([what |-> "training", config |-> experiments[exp_i].name,
              run |-> run_i + 1, of |-> RUNS_PER_CONFIG])
    /\ UNCHANGED <<extractor_out, clf, split_i, exp_i, run_i, full_paths, filtered, apply_out,
                   dev_metrics_list, results, table, guard_res, guard_runs, writes,
                   taxVars, filterVars, scoreVars, extractVars>>

\* score_model: bin/classify apply exiting 0
Apply ==
    /\ mpc = "apply"
    /\ apply_out' = ClassifyApply(clf, filtered[filtered_path(experiments[exp_i].name, "dev")])
    /\ exp_steps' = exp_steps + 1
    /\ mpc' = "score"
    /\ UNCHANGED <<extractor_out, clf, split_i, exp_i, run_i, full_paths, filtered, models,
                   dev_metrics_list, results, table, err, guard_res, guard_runs, writes,
                   taxVars, filterVars, scoreVars, extractVars>>

\* score_model: bin/classify apply exiting non-zero
ApplyFails ==
    /\ mpc = "apply"
    /\ exp_steps' = exp_steps + 1
    /\ Abort([what |-> "model application",
              file |-> filtered_path(experiments[exp_i].name, "dev")])
    /\ UNCHANGED <<extractor_out, clf, split_i, exp_i, run_i, full_paths, filtered, models,
                   apply_out, dev_metrics_list, results, table, guard_res, guard_runs, writes,
                   taxVars, filterVars, scoreVars, extractVars>>


\* score_model: score.py on the filtered dev file and the predictions, then
\* the parse of its report
Score ==
    /\ mpc = "score"
    /\ LET eval_path == filtered_path(experiments[exp_i].name, "dev")
           res       == score_model_parse(score(filtered[eval_path], apply_out))
       IN  IF res.raised = "RuntimeError"
               THEN /\ Abort([what |-> res.msg, file |-> eval_path])
                    /\ dev_metrics_list' = dev_metrics_list
               ELSE /\ dev_metrics_list' = Append(dev_metrics_list, res.metrics)
                    /\ mpc' = "unlink"
                    /\ err' = err
    /\ exp_steps' = exp_steps + 1
    /\ UNCHANGED <<extractor_out, clf, split_i, exp_i, run_i, full_paths, filtered, models,
                   apply_out, results, table, guard_res, guard_runs, writes,
                   taxVars, filterVars, scoreVars, extractVars>>

\* A plausible slip: the artifact is not deleted after scoring.
UnlinkMissing ==
    /\ mpc = "unlink"
    /\ run_i' = run_i + 1
    /\ mpc' = IF run_i + 1 < RUNS_PER_CONFIG THEN "train" ELSE "append"
    /\ UNCHANGED <<extractor_out, clf, split_i, exp_i, full_paths, filtered, models, apply_out,
                   dev_metrics_list, results, table, err, guard_res,
                   guard_runs, exp_steps, writes,
                   taxVars, filterVars, scoreVars, extractVars>>

\* model_path.unlink(missing_ok=True), then the next run or the end of the loop
Unlink ==
    /\ mpc = "unlink"
    /\ models' = models \ {model_path(experiments[exp_i].name)}
    /\ run_i' = run_i + 1
    /\ mpc' = IF run_i + 1 < RUNS_PER_CONFIG THEN "train" ELSE "append"
    /\ UNCHANGED <<extractor_out, clf, split_i, exp_i, full_paths, filtered, apply_out,
                   dev_metrics_list, results, table, err, guard_res,
                   guard_runs, exp_steps, writes,
                   taxVars, filterVars, scoreVars, extractVars>>

\* A plausible slip: the table is rewritten after every experiment.
AppendRowAndWrite ==
    /\ mpc = "append"
    /\ results' = Append(results, ResultRow(experiments[exp_i], avg_metrics(dev_metrics_list)))
    /\ table' = write_results(results')
    /\ writes' = writes + 1
    /\ IF exp_i < Len(experiments)
           THEN exp_i' = exp_i + 1 /\ mpc' = "filter"
           ELSE exp_i' = exp_i /\ mpc' = "write"
    /\ UNCHANGED <<extractor_out, clf, split_i, run_i, full_paths, filtered, models, apply_out,
                   dev_metrics_list, err, guard_res, guard_runs, exp_steps,
                   taxVars, filterVars, scoreVars, extractVars>>

\* train_and_eval returning the averages, main appending the row
AppendRow ==
    /\ mpc = "append"
    /\ results' = Append(results, ResultRow(experiments[exp_i], avg_metrics(dev_metrics_list)))
    /\ IF exp_i < Len(experiments)
           THEN exp_i' = exp_i + 1 /\ mpc' = "filter"
           ELSE exp_i' = exp_i /\ mpc' = "write"
    /\ UNCHANGED <<extractor_out, clf, split_i, run_i, full_paths, filtered, models, apply_out,
                   dev_metrics_list, table, err, guard_res, guard_runs, exp_steps, writes,
                   taxVars, filterVars, scoreVars, extractVars>>

\* main's call of write_results after the loop
WriteResults ==
    /\ mpc = "write"
    /\ table' = write_results(results)
    /\ writes' = writes + 1
    /\ mpc' = "done"
    /\ UNCHANGED <<extractor_out, clf, split_i, exp_i, run_i, full_paths, filtered, models,
                   apply_out, dev_metrics_list, results, err, guard_res,
                   guard_runs, exp_steps,
                   taxVars, filterVars, scoreVars, extractVars>>

NextMain ==
    \/ ExtractSplit \/ ExtractFails \/ Guard
    \/ FilterSplit \/ Train \/ TrainFails \/ Apply \/ ApplyFails \/ Score
    \/ Unlink \/ AppendRow \/ WriteResults

SpecMain == InitMain /\ [][NextMain]_vars

----------------------------------------------------------------------------
(* Specification of the report parse: score_model reading what the scorer     *)
(* subprocess printed, then train_and_eval's average and the row main         *)
(* appends.  The scorer is a separate process; its exit status and its        *)
(* report are drawn in the initial state.                                     *)

\* What a report holds for one metric: no line, the heading without a number
\* after it, or the heading and a number.
MetricLineChoices(heading, places) ==
    { <<>>, <<Line(heading)>>, <<NumLine(heading, 0, places)>>,
      <<NumLine(heading, 5 * Pow10(places), places)>> }

ScorerReports ==
    { <<Rule, Line("EVALUATION METRICS"), Rule>> \o a \o w \o b \o m \o <<Rule>> :
        a \in MetricLineChoices("Exact Accuracy:", 2),
        w \in MetricLineChoices("Within-1-Bin Acc:", 2),
        b \in MetricLineChoices("MAE (bins):", 3),
        m \in MetricLineChoices("MAE (months):", 2) }

InitParse ==
    /\ TaxIdle
    /\ FilterIdle
    /\ ExtractIdle
    /\ MainIdle
    /\ gold_file = <<>>
    /\ prediction_file = <<>>
    /\ \E rc \in {0, 1}, report \in ScorerReports :
           score_res = [returncode |-> rc, stdout |-> report, vals |-> NotRun]
    /\ parsed = NotRun

\* score_model returned: train_and_eval averages its one run and main
\* appends the row of the experiment.
AppendParsedRow ==
    /\ parsed # NotRun
    /\ parsed.raised = "no"
    /\ results = <<>>
    /\ dev_metrics_list' = <<parsed.metrics>>
    /\ results' = <<ResultRow(experiments[exp_i], avg_metrics(<<parsed.metrics>>))>>
    /\ UNCHANGED <<extractor_out, clf, mpc, split_i, exp_i, run_i, full_paths, filtered,
                   models, apply_out, table, err, guard_res, guard_runs, exp_steps, writes,
                   taxVars, filterVars, scoreVars, extractVars>>

NextParse == ScoreModelParse \/ AppendParsedRow

SpecParse == InitParse /\ [][NextParse]_vars

----------------------------------------------------------------------------
(* Claims *)

\* C1: every feature the extractor emits in extended mode is mapped by the
\* coarse taxonomy, so the guard does not raise on the extractor's output.
C1_ExtractorFullyMapped ==
    (extended /\ epc = "guarded") =>
        /\ guard.raised = "no"
        /\ \A i \in 1..Len(events) :
               \A f \in Range(ButLast(Split(Strip(events[i]), COMMA))) :
                   group_for_feature(f, FALSE) # None

\* C4: for every feature, the detailed group equals the coarse group whenever
\* the coarse group is not extended_syntax (None included), and is one of the
\* six extended sub-groups whenever the coarse group is extended_syntax.
C4_DetailedRefinesCoarse ==
    (coarse # Unset /\ fine # Unset) =>
        /\ (coarse # GROUP_EXTENDED => fine = coarse)
        /\ (coarse = GROUP_EXTENDED => fine \in EXTENDED_SUBGROUPS)

C4_Witness ==
    /\ feat = <<"has", US, "negation">>
    /\ coarse = GROUP_EXTENDED
    /\ fine = GROUP_EXT_MARKERS

\* The line ends with this field: the field, then the line terminator, with a
\* comma or the start of the line before it.
EndsWithField(line, field) ==
    LET n == Len(line)
        k == Len(field)
    IN  /\ n >= k + 1
        /\ line[n] = NL
        /\ SubSeq(line, n - k, n - 1) = field
        /\ (n - k - 1 >= 1 => line[n - k - 1] = COMMA)

\* C5: filtering the output of filter_features again with the same
\* allowed_groups yields the same file.
C5_FilterIdempotent ==
    fpc = "refiltered" => dst2 = dst

C5_Witness ==
    /\ fpc = "refiltered"
    /\ Len(src) = 1
    /\ dst # src
    /\ \E i \in 1..Len(dst) : Len(Split(Strip(dst[i]), COMMA)) > 1
    /\ (allowed \cap EXTENDED_SUBGROUPS) # {}
    /\ GROUP_EXTENDED \in allowed

\* C6: filter_features writes one record per input record, and the last
\* comma-separated field of each is the label of the input record.
C6_LabelKeptLast ==
    fpc \in {"filtered", "refiltered"} =>
        /\ Len(dst) = Len(recs)
        /\ \A i \in 1..Len(recs) : EndsWithField(dst[i], recs[i].label)

C6_Witness ==
    /\ fpc = "filtered"
    /\ Len(recs) = 1
    /\ recs[1].label = <<"6yo", US, "plus">>
    /\ Len(recs[1].feats) = 2
    /\ allowed = {}
    /\ dst = << <<"6yo", US, "plus", NL>> >>

\* The six extended sub-groups, by name.
SixSubGroups ==
    { <<"ext", US, "bigrams">>, <<"ext", US, "trigrams">>, <<"ext", US, "pos">>,
      <<"ext", US, "pos", US, "bigrams">>, <<"ext", US, "pos", US, "trigrams">>,
      <<"ext", US, "markers">> }

\* The granularity of the pass: detailed iff a sub-group is allowed.
PassIsDetailed == \E g \in SixSubGroups : g \in allowed

\* C11: within one filter_features pass a single granularity is used for
\* every token of every record, detailed iff allowed_groups contains one of
\* the six extended sub-groups and coarse otherwise; the tokens written are
\* exactly the tokens of the record whose group under that granularity is a
\* member of allowed_groups, in their order, before the label.
C11_OneGranularityPerPass ==
    fpc \in {"filtered", "refiltered"} =>
        /\ Len(dst) = Len(recs)
        /\ \A i \in 1..Len(recs) :
               ButLast(Split(Strip(dst[i]), COMMA)) =
                   SelectSeq(recs[i].feats,
                             LAMBDA f : group_for_feature(f, PassIsDetailed) \in allowed)

\* A pass that allows the coarse group and one of its sub-groups: the bigram
\* is classified in detail and dropped, the marker is kept.
C11_Witness ==
    /\ fpc = "filtered"
    /\ allowed = {GROUP_LEXICAL, GROUP_EXTENDED, GROUP_EXT_MARKERS}
    /\ Len(recs) = 1
    /\ recs[1].feats = << N1("bigram") \o <<"a", US, "b">>, <<"has", US, "plural">> >>
    /\ ButLast(Split(Strip(dst[1]), COMMA)) = << <<"has", US, "plural">> >>

\* C12: with an empty allowed_groups every record written is the label of
\* the input record alone, also when the record holds unmapped tokens.
C12_EmptyAllowedLabelOnly ==
    (fpc \in {"filtered", "refiltered"} /\ allowed = {}) =>
        /\ Len(dst) = Len(recs)
        /\ \A i \in 1..Len(recs) : dst[i] = recs[i].label \o <<NL>>

C12_Witness ==
    /\ fpc = "filtered"
    /\ allowed = {}
    /\ Len(recs) = 1
    /\ \E k \in 1..Len(recs[1].feats) : group_for_feature(recs[1].feats[k], FALSE) = None
    /\ \E k \in 1..Len(recs[1].feats) : group_for_feature(recs[1].feats[k], FALSE) # None
    /\ dst[1] = recs[1].label \o <<NL>>

\* The two label lists the scorer read, and the positions a claim speaks of.
GoldRead == GoldLabels(gold_file)
PredRead == PredictedLabels(prediction_file)

ScoreRan == score_res # NotRun

EqualLength == Len(GoldRead) = Len(PredRead) /\ Len(GoldRead) >= 1

\* A label resolves to a bucket index iff it is one of the ordered buckets.
Resolves(label) == \E i \in DOMAIN AGE_BIN_ORDER : AGE_BIN_ORDER[i] = label
Bucket(label)   == CHOOSE i \in DOMAIN AGE_BIN_ORDER : AGE_BIN_ORDER[i] = label

BothResolve == { i \in 1..Len(GoldRead) : Resolves(GoldRead[i]) /\ Resolves(PredRead[i]) }

\* The number printed after a heading of the report, with its decimals.
Printed(heading, v, places) ==
    \E i \in 1..Len(score_res.stdout) :
        score_res.stdout[i] = NumLine(heading, v, places)

MetricHeadings ==
    { "Exact Accuracy:", "Within-1-Bin Acc:", "Macro Recall:", "MAE (bins):", "MAE (months):" }

PrintsMetrics ==
    \E i \in 1..Len(score_res.stdout) : score_res.stdout[i].text \in MetricHeadings

\* C2: for equal-length lists of at least one label, the within-1-bin accuracy
\* is at least the exact accuracy.
C2_Within1AtLeastExact ==
    (ScoreRan /\ EqualLength) =>
        RatGeq(score_res.vals.within_1_accuracy, score_res.vals.accuracy)

\* C3: when the two lists differ in length the scorer reports the two counts,
\* prints no metrics and ends with a non-zero status, which score_model turns
\* into an error.
C3_LengthMismatchFails ==
    (ScoreRan /\ Len(GoldRead) # Len(PredRead)) =>
        /\ Printed("\tNum gold labels:", Len(GoldRead), 0)
        /\ Printed("\tNum predicted labels:", Len(PredRead), 0)
        /\ ~PrintsMetrics
        /\ score_res.returncode # 0
        /\ (parsed # NotRun => parsed.raised = "RuntimeError")

\* C7: on a perfectly predicted stream the scorer reports exact accuracy 100,
\* within-1 accuracy 100, macro recall 100, MAE (bins) 0 and MAE (months) 0.
C7_PerfectPrediction ==
    (ScoreRan /\ EqualLength /\ GoldRead = PredRead) =>
        /\ RatEq(score_res.vals.accuracy, <<100, 1>>)
        /\ RatEq(score_res.vals.within_1_accuracy, <<100, 1>>)
        /\ RatEq(score_res.vals.macro_recall, <<100, 1>>)
        /\ RatEq(score_res.vals.mae_bins, <<0, 1>>)
        /\ RatEq(score_res.vals.mae_months, <<0, 1>>)

\* C8: the bucket MAE is the sum of the index distances over the positions
\* where both labels resolve, divided by the number of those positions.
C8_MaeBinsOverResolved ==
    (ScoreRan /\ EqualLength /\ BothResolve # {}) =>
        RatEq(score_res.vals.mae_bins,
              << SumTo([i \in 1..Len(GoldRead) |->
                           IF i \in BothResolve
                               THEN Abs(Bucket(GoldRead[i]) - Bucket(PredRead[i]))
                               ELSE 0], Len(GoldRead)),
                 Cardinality(BothResolve) >>)

\* C9: a position is within-1 correct iff both labels resolve and their
\* indices differ by at most 1; both accuracies divide by the number of
\* positions; gold [1yo,2yo,1yo] against predicted [1yo,1yo,3yo] is reported
\* as 33.33, 66.67 and a bucket MAE of 1.000.
C9_AccuracyDefinitions ==
    (ScoreRan /\ EqualLength) =>
        /\ RatEq(score_res.vals.within_1_accuracy,
                 << 100 * Cardinality({ i \in BothResolve :
                        Abs(Bucket(GoldRead[i]) - Bucket(PredRead[i])) <= 1 }),
                    Len(GoldRead) >>)
        /\ RatEq(score_res.vals.accuracy,
                 << 100 * Cardinality({ i \in 1..Len(GoldRead) : GoldRead[i] = PredRead[i] }),
                    Len(GoldRead) >>)
        /\ (/\ GoldRead = << <<"1yo">>, <<"2yo">>, <<"1yo">> >>
            /\ PredRead = << <<"1yo">>, <<"1yo">>, <<"3yo">> >>)
               => /\ Printed("Exact Accuracy:", 3333, 2)
                  /\ Printed("Within-1-Bin Acc:", 6667, 2)
                  /\ Printed("MAE (bins):", 1000, 3)

C9_Witness ==
    /\ ScoreRan
    /\ GoldRead = << <<"1yo">>, <<"2yo">>, <<"1yo">> >>
    /\ PredRead = << <<"1yo">>, <<"1yo">>, <<"3yo">> >>
    /\ score_res.returncode = 0

\* The run of main has ended: it returned or an exception left it.
RunEnded == mpc \in {"done", "aborted"}

\* Whenever the guard has executed it was given the full files of all three
\* splits, each already written by the extractor.
GuardOverAllSplits ==
    guard_runs >= 1 =>
        /\ Len(guard_res.files) = Len(SPLITS)
        /\ guard_res.files = full_paths
        /\ \A i \in 1..Len(SPLITS) : guard_res.files[i] = extractor_out[i]

\* Every experiment step (a filter pass, a train, an apply, a scoring) comes
\* after the one execution of the guard, which did not raise.
GuardBeforeExperiments ==
    exp_steps > 0 => guard_runs = 1 /\ guard_res.raised = "no"

\* A raising guard ends the run with no experiment step and no table.
GuardRaiseIsFatal ==
    (guard_runs >= 1 /\ guard_res.raised = "RuntimeError") =>
        /\ mpc = "aborted"
        /\ exp_steps = 0
        /\ writes = 0
        /\ table = NotRun

\* C10 as stated: in every harness run the schema guard executes exactly once,
\* over the full files of all three splits, after extraction and before the
\* first experiment's filter/train/apply step; if it raises, no experiment
\* step is ever executed and no results table is written in that run.
C10_GuardOnceEveryRun ==
    /\ guard_runs <= 1
    /\ (RunEnded => guard_runs = 1)
    /\ GuardOverAllSplits
    /\ GuardBeforeExperiments
    /\ GuardRaiseIsFatal

\* C10 as amended: the schema guard executes at most once in a harness run,
\* and exactly once in every run in which the extraction of all three splits
\* succeeded (a run whose extraction fails ends before the guard); it
\* executes over the full files of all three splits, after extraction and
\* before the first experiment's filter/train/apply step; if it raises, no
\* experiment step is ever executed and no results table is written.
C10_GuardOnceAfterExtraction ==
    /\ guard_runs <= 1
    /\ (RunEnded /\ Len(full_paths) = Len(SPLITS) => guard_runs = 1)
    /\ (RunEnded /\ Len(full_paths) < Len(SPLITS) => guard_runs = 0)
    /\ GuardOverAllSplits
    /\ GuardBeforeExperiments
    /\ GuardRaiseIsFatal

\* A run whose guard passed, whose experiments all ran and whose table was
\* written.
C10_Witness ==
    /\ mpc = "done"
    /\ guard_runs = 1
    /\ guard_res.raised = "no"
    /\ exp_steps > 0
    /\ writes = 1

\* The known groups: the six coarse groups and the six extended sub-groups.
KnownGroups ==
    { GROUP_LEXICAL, GROUP_FUNCTION, GROUP_MORPH, GROUP_INTEL, GROUP_CLASS_PROP,
      GROUP_EXTENDED } \cup SixSubGroups

\* The experiments of the four catalogues, in main's order.
Catalogued ==
    ADDITIVE_CONFIGS \o ABLATION_CONFIGS \o EXTENDED_ADDITIVE_CONFIGS
        \o EXTENDED_ABLATION_CONFIGS

\* C13: across the four catalogues every experiment name is distinct and
\* every allowed-group set is a subset of the twelve known groups; no two
\* experiments share a filtered-file path or a model-artifact path, so the
\* harness never writes a filtered file over one of another experiment and
\* never trains onto an artifact that is already there.
C13_NamesDistinctPathsUnshared ==
    /\ Cardinality(KnownGroups) = 12
    /\ \A i \in DOMAIN Catalogued : Catalogued[i].groups \subseteq KnownGroups
    /\ \A i, j \in DOMAIN Catalogued :
           i # j =>
               /\ Catalogued[i].name # Catalogued[j].name
               /\ model_path(Catalogued[i].name) # model_path(Catalogued[j].name)
               /\ \A a, b \in 1..Len(SPLITS) :
                      filtered_path(Catalogued[i].name, SPLITS[a])
                          # filtered_path(Catalogued[j].name, SPLITS[b])
    /\ (mpc = "filter" =>
            filtered_path(experiments[exp_i].name, SPLITS[split_i]) \notin DOMAIN filtered)
    /\ (mpc = "train" => model_path(experiments[exp_i].name) \notin models)
    /\ (mpc = "done" => Cardinality(DOMAIN filtered) = Len(Catalogued) * Len(SPLITS))

\* A finished run: every experiment left its own three filtered files.
C13_Witness ==
    /\ mpc = "done"
    /\ Len(results) = 25
    /\ Cardinality(DOMAIN filtered) = 75
    /\ models = {}

\* The full coarse superset and the full detailed superset, by name.
CoarseSuperset ==
    { GROUP_LEXICAL, GROUP_FUNCTION, GROUP_MORPH, GROUP_INTEL, GROUP_CLASS_PROP,
      GROUP_EXTENDED }

DetailedSuperset ==
    { GROUP_LEXICAL, GROUP_FUNCTION, GROUP_MORPH, GROUP_INTEL, GROUP_CLASS_PROP }
        \cup SixSubGroups

\* The catalogue has exactly one row per group of the set, and every row is
\* the superset without exactly one group of the set.
LeaveOneOut(configs, superset, removable) ==
    /\ Len(configs) = Cardinality(removable)
    /\ \A g \in removable :
           Cardinality({ i \in DOMAIN configs : configs[i].groups = superset \ {g} }) = 1
    /\ \A i \in DOMAIN configs :
           /\ configs[i].groups \subseteq superset
           /\ Cardinality(superset \ configs[i].groups) = 1
           /\ (superset \ configs[i].groups) \subseteq removable

\* C14: the ablation catalogue has exactly one row per coarse group, each the
\* full coarse superset minus exactly that group; the extended-ablation
\* catalogue has exactly one row per extended sub-group, each the full
\* detailed superset minus exactly that sub-group; so is the set of every
\* ablation experiment main runs.
C14_LeaveOneOutCatalogues ==
    /\ Cardinality(CoarseSuperset) = 6
    /\ Cardinality(SixSubGroups) = 6
    /\ LeaveOneOut(ABLATION_CONFIGS, CoarseSuperset, CoarseSuperset)
    /\ LeaveOneOut(EXTENDED_ABLATION_CONFIGS, DetailedSuperset, SixSubGroups)
    /\ LET e == experiments[exp_i]
       IN  /\ e.type = "ablation" =>
                  \E g \in CoarseSuperset : e.groups = CoarseSuperset \ {g}
           /\ e.type = "ext_ablation" =>
                  \E g \in SixSubGroups : e.groups = DetailedSuperset \ {g}

\* A finished run in which the ablation without the lexical group dropped
\* the lexical token only and the one without bigrams dropped the bigram only.
C14_Witness ==
    /\ mpc = "done"
    /\ full_paths[2] = MappedFile
    /\ filtered[filtered_path("full_minus_lexical", "dev")][1] =
           Join(<< N1("bigram") \o <<"a", US, "b">>, <<"has", US, "plural">>, <<"1yo">> >>, COMMA)
               \o <<NL>>
    /\ filtered[filtered_path("full_minus_bigrams", "dev")][1] =
           Join(<< N2("word", "count") \o <<"3">>, <<"has", US, "plural">>, <<"1yo">> >>, COMMA)
               \o <<NL>>

\* The type of the i-th declared experiment: the catalogues follow one another.
DeclaredType(i) ==
    IF i <= Len(ADDITIVE_CONFIGS) THEN "additive"
    ELSE IF i <= Len(ADDITIVE_CONFIGS) + Len(ABLATION_CONFIGS) THEN "ablation"
    ELSE IF i <= Len(ADDITIVE_CONFIGS) + Len(ABLATION_CONFIGS)
                     + Len(EXTENDED_ADDITIVE_CONFIGS) THEN "ext_additive"
    ELSE "ext_ablation"

\* The rows are those of the first n declared experiments, in that order.
InDeclaredOrder(rs, n) ==
    /\ Len(rs) = n
    /\ \A i \in 1..n :
           /\ rs[i].config = Catalogued[i].name
           /\ rs[i].type = DeclaredType(i)

\* C15: the rows of the results table appear in the order the experiments
\* were declared and executed, additive rows in chain order, then ablation,
\* extended-additive and extended-ablation rows, one row per experiment: the
\* rows main holds are at every moment those of the experiments finished so
\* far, in declared order, and the table written holds all of them.
C15_RowsInDeclaredOrder ==
    /\ (mpc \in {"filter", "train", "apply", "score", "unlink", "append"} =>
            InDeclaredOrder(results, exp_i - 1))
    /\ (mpc \in {"write", "done"} => InDeclaredOrder(results, Len(Catalogued)))
    /\ (mpc = "aborted" /\ exp_steps > 0 => InDeclaredOrder(results, exp_i - 1))
    /\ (table # NotRun =>
            /\ InDeclaredOrder(table.lines, Len(Catalogued))
            /\ Len(Catalogued) = 25)

\* A written table with the first row of each catalogue in its place.
C15_Witness ==
    /\ mpc = "done"
    /\ table # NotRun
    /\ table.lines[1].config = "lexical_only"
    /\ table.lines[6].config = "full_extended"
    /\ table.lines[7].config = "full_minus_lexical"
    /\ table.lines[13].config = "baseline+bigrams"
    /\ table.lines[20].config = "full_minus_bigrams"
    /\ table.lines[25].config = "full_minus_markers"

\* The four metrics of a results row, by the heading score_model looks for.
RowHeadings == { "Exact Accuracy:", "Within-1-Bin Acc:", "MAE (bins):", "MAE (months):" }

\* The heading, followed by a number, is not in the scorer's report.
Absent(heading) == Search(score_res.stdout, heading) = {}

\* C16: if any of the four expected metric headings is absent from the
\* scorer's report the experiment fails with an error, and no results row
\* is built with a default in place of the missing metric.
C16_MissingMetricIsFatal ==
    (parsed # NotRun /\ \E h \in RowHeadings : Absent(h)) =>
        /\ parsed.raised = "RuntimeError"
        /\ results = <<>>

\* The run ended because the train or the apply step exited non-zero.
TrainOrApplyFailed ==
    /\ mpc = "aborted"
    /\ err # NotRun
    /\ err.msg.what \in {"training", "model application"}

\* The message of the exception names the config, the run.
NamesConfig(msg, config_name) ==
    \/ "config" \in DOMAIN msg /\ msg.config = config_name
    \/ "file" \in DOMAIN msg /\ msg.file[1] = config_name

NamesRun(msg, run_number) == "run" \in DOMAIN msg /\ msg.run = run_number

\* C17: when the train or apply step of an experiment exits non-zero the
\* experiment is aborted with an error identifying the config and the run;
\* the failed step is not invoked again, no later step of the experiment is
\* executed and no metrics are produced for the experiment.
C17_FailedStepAbortsNamed ==
    TrainOrApplyFailed =>
        /\ NamesConfig(err.msg, experiments[exp_i].name)
        /\ NamesRun(err.msg, run_i + 1)
        /\ ~ENABLED NextMain
        /\ dev_metrics_list = <<>>
        /\ Len(results) = exp_i - 1
        /\ table = NotRun

\* The label the extractor wrote for the i-th row: the last field of its line.
LabelWritten(i) == Last(Split(Strip(events[i]), COMMA))

\* The bucket the boundaries 12, 24, 36, 48, 60 and 72 give an age, each
\* boundary belonging to the upper bucket.
BoundaryBucket(m) ==
    IF m >= 72 THEN 6 ELSE IF m >= 60 THEN 5 ELSE IF m >= 48 THEN 4
    ELSE IF m >= 36 THEN 3 ELSE IF m >= 24 THEN 2 ELSE IF m >= 12 THEN 1 ELSE 0

\* C18: bucket_age is a deterministic, monotone function of the age in months
\* with inclusive-low boundaries at 12, 24, 36, 48, 60 and 72 (23 gives 1yo,
\* 24 gives 2yo); a missing age gives UNK, and every other label is one of the
\* scorer's seven ordered buckets, its index non-decreasing in the age.
C18_BucketAgeMonotone ==
    (epc = "extracted" /\ Len(rows) = 2) =>
        /\ Len(events) = 2
        /\ \A i \in 1..2 :
               IF rows[i].age_months = <<>>
                   THEN LabelWritten(i) = <<"UNK">>
                   ELSE /\ LabelWritten(i) \in Range(AGE_BIN_ORDER)
                        /\ AGE_BIN_TO_INDEX(LabelWritten(i))
                               = BoundaryBucket(rows[i].age_months[1])
                        /\ (rows[i].age_months[1] = 23 => LabelWritten(i) = <<"1yo">>)
                        /\ (rows[i].age_months[1] = 24 => LabelWritten(i) = <<"2yo">>)
        /\ (rows[1].age_months = rows[2].age_months => LabelWritten(1) = LabelWritten(2))
        /\ (rows[1].age_months # <<>> /\ rows[2].age_months # <<>>
                /\ rows[1].age_months[1] <= rows[2].age_months[1] =>
                    AGE_BIN_TO_INDEX(LabelWritten(1)) <= AGE_BIN_TO_INDEX(LabelWritten(2)))

\* The two sides of the boundary at 24 months.
C18_Witness ==
    /\ epc = "extracted"
    /\ Len(rows) = 2
    /\ rows[1].age_months = <<23>>
    /\ rows[2].age_months = <<24>>
    /\ LabelWritten(1) = <<"1yo">>
    /\ LabelWritten(2) = <<"2yo">>

\* The experiment main is running, its artifact, the steps of one experiment.
CurrentConfig == experiments[exp_i].name
CurrentModel == model_path(CurrentConfig)
StepsPerExperiment == Len(SPLITS) + 3 * RUNS_PER_CONFIG

\* C19: for each experiment all three splits are filtered before the first
\* train; each run then trains, applies, scores and deletes the model in
\* that order, so the artifact is deleted after its scoring and before the
\* next train, at most one artifact exists at any time, and when
\* train_and_eval has returned no artifact of the config remains.
C19_FilterTrainApplyScoreDelete ==
    /\ Cardinality(models) <= 1
    /\ (mpc = "filter" =>
            /\ models = {}
            /\ exp_steps = StepsPerExperiment * (exp_i - 1) + (split_i - 1)
            /\ \A k \in 1..(split_i - 1) :
                   filtered_path(CurrentConfig, SPLITS[k]) \in DOMAIN filtered)
    /\ (mpc = "train" =>
            /\ models = {}
            /\ Len(dev_metrics_list) = run_i
            /\ exp_steps = StepsPerExperiment * (exp_i - 1) + Len(SPLITS) + 3 * run_i
            /\ \A k \in 1..Len(SPLITS) :
                   filtered_path(CurrentConfig, SPLITS[k]) \in DOMAIN filtered)
    /\ (mpc = "apply" =>
            /\ models = {CurrentModel}
            /\ Len(dev_metrics_list) = run_i
            /\ exp_steps = StepsPerExperiment * (exp_i - 1) + Len(SPLITS) + 3 * run_i + 1)
    /\ (mpc = "score" =>
            /\ models = {CurrentModel}
            /\ Len(dev_metrics_list) = run_i
            /\ exp_steps = StepsPerExperiment * (exp_i - 1) + Len(SPLITS) + 3 * run_i + 2)
    /\ (mpc = "unlink" =>
            /\ models = {CurrentModel}
            /\ Len(dev_metrics_list) = run_i + 1
            /\ exp_steps = StepsPerExperiment * (exp_i - 1) + Len(SPLITS) + 3 * run_i + 3)
    /\ (mpc \in {"append", "write", "done"} =>
            /\ models = {}
            /\ Len(dev_metrics_list) = RUNS_PER_CONFIG)
    /\ \A k \in 1..Len(results) : model_path(results[k].config) \notin models

\* train_and_eval has returned for the second experiment: its run was
\* scored and its artifact is gone.
C19_Witness ==
    /\ mpc = "append"
    /\ exp_i = 2
    /\ run_i = RUNS_PER_CONFIG
    /\ Len(dev_metrics_list) = RUNS_PER_CONFIG
    /\ models = {}
    /\ \A k \in 1..Len(SPLITS) : filtered_path(CurrentConfig, SPLITS[k]) \in DOMAIN filtered

\* C20: for every feature stream, filtering with the full coarse set
\* (experiment full_extended) and with the full detailed set (experiment
\* full_detailed) gives identical output streams; both keep exactly the
\* tokens whose coarse group is not None.
C20_FullViewsAgree ==
    fpc = "both_views" =>
        /\ dst = dst2
        /\ Len(dst) = Len(recs)
        /\ \A i \in 1..Len(recs) :
               /\ ButLast(Split(Strip(dst[i]), COMMA)) =
                      SelectSeq(recs[i].feats, LAMBDA f : group_for_feature(f, FALSE) # None)
               /\ ButLast(Split(Strip(dst2[i]), COMMA)) =
                      SelectSeq(recs[i].feats, LAMBDA f : group_for_feature(f, FALSE) # None)

\* A record with an unmapped token and a marker: both views keep the marker
\* and drop the unmapped token.
C20_Witness ==
    /\ fpc = "both_views"
    /\ Len(recs) = 1
    /\ recs[1].feats = << N1("utter") \o <<"a", SP, "b">>, <<"has", US, "plural">> >>
    /\ dst[1] = Join(<< <<"has", US, "plural">>, recs[1].label >>, COMMA) \o <<NL>>
    /\ dst2 = dst

\* C21: the results table is written at most once per harness run and only
\* after every experiment of the four catalogues has completed: when an
\* experiment has failed write_results is not called, so the rows of the
\* experiments completed before it are in no table.
C21_TableOnlyAfterAllExperiments ==
    /\ writes <= 1
    /\ (writes = 0 <=> table = NotRun)
    /\ (writes = 1 =>
            /\ mpc = "done"
            /\ err = NotRun
            /\ Len(results) = Len(Catalogued)
            /\ exp_steps = StepsPerExperiment * Len(Catalogued)
            /\ table.lines = write_results(results).lines
            /\ Len(table.lines) = Len(Catalogued))
    /\ (mpc = "aborted" => writes = 0 /\ table = NotRun)
    /\ (mpc # "done" => writes = 0)

\* A run ended by a failing step of a later experiment: rows of completed
\* experiments are held, no table was written.
C21_Witness ==
    /\ mpc = "aborted"
    /\ err # NotRun
    /\ exp_i > 1
    /\ Len(results) = exp_i - 1
    /\ writes = 0
    /\ table = NotRun

====
